---- MODULE Spec2Model ----
(***************************************************************************)
(* Model of the ClassesService request handlers: timetable slots,          *)
(* academic years, attendance marking and class-roster rollover, together  *)
(* with the PostgreSQL tables and constraints they run against.            *)
(*                                                                         *)
(* Every handler is a sequence of awaited statements; a request is a       *)
(* process p with a position (pc) and the locals the handler keeps between *)
(* statements.  The "Seq" specifications run one request at a time, the    *)
(* "Conc" specifications interleave the statements of two requests.        *)
(***************************************************************************)
EXTENDS Integers, Sequences, FiniteSets, TLC

(***************************************************************************)
(* Bounds of the model                                                     *)
(***************************************************************************)
MaxSlots == 2
MaxYears == 3
MaxTime == 5        \* times of day the conflict predicate is evaluated on: 0..MaxTime
MaxConns == 3       \* WebSocket connections opened in one run

(***************************************************************************)
(* Fixed data: branches, users (public.users) and request processes        *)
(***************************************************************************)
Branches == {"bA", "bB"}
Procs == {1, 2}
Missing == ""

\* public.users rows with role = 'teacher' and status = 'Active'
Users == { [id |-> "t1", role |-> "teacher", status |-> "Active", branch_id |-> "bA"],
           [id |-> "t2", role |-> "teacher", status |-> "Active", branch_id |-> "bB"] }

\* branch.students (both Active), their class_id and academic_year
Students == {"s1", "s2"}
StudentClass == [s \in Students |-> "c3"]
StudentYear == [s \in Students |-> IF s = "s1" THEN "2024" ELSE "2025"]

(***************************************************************************)
(* Time-of-day values.  A request carries them as strings; the handler     *)
(* compares the strings (JavaScript >= on strings is lexicographic by code *)
(* unit), the database parses them into the column type `time`.            *)
(* A string is a sequence of code units: digit d is d, ':' is Colon        *)
(* (':' is 0x3A, above '9' = 0x39).                                        *)
(***************************************************************************)
Colon == 10

RECURSIVE StrLt(_, _)
StrLt(a, b) ==
    IF b = <<>> THEN FALSE
    ELSE IF a = <<>> THEN TRUE
    ELSE IF Head(a) < Head(b) THEN TRUE
    ELSE IF Head(a) > Head(b) THEN FALSE
    ELSE StrLt(Tail(a), Tail(b))

\* JavaScript  a >= b  on two strings
StrGe(a, b) == ~StrLt(a, b)

RECURSIVE DigitsVal(_)
DigitsVal(s) ==
    IF s = <<>> THEN 0
    ELSE DigitsVal(SubSeq(s, 1, Len(s) - 1)) * 10 + s[Len(s)]

\* PostgreSQL input conversion of 'H:MM' / 'HH:MM' to time, in minutes
ParseTime(s) ==
    LET cp == CHOOSE i \in 1..Len(s) : s[i] = Colon
    IN  DigitsVal(SubSeq(s, 1, cp - 1)) * 60 + DigitsVal(SubSeq(s, cp + 1, Len(s)))

(***************************************************************************)
(* State                                                                   *)
(***************************************************************************)
VARIABLES
    classes,        \* branch.classes
    timetables,     \* branch.timetables
    nextSlotId,     \* ids handed out by gen_random_uuid() for timetables
    tt,             \* timetable requests: position and locals per process
    academic_years, \* public.academic_years
    nextYearId,     \* ids handed out for academic_years rows
    ay,             \* academic-year requests: position and locals per process
    ro,             \* rollover requests: position, locals and open transaction
    attendance,     \* branch.attendance (committed rows)
    att,            \* attendance requests: position, locals and open transaction
    resp,           \* last response sent per process
    activeConnections, \* the server's Map of student id to WebSocket
    sockets,        \* server-side WebSockets: readyState and ws.studentId
    client,         \* the fields of one NotificationClient
    cws,            \* readyState of the WebSockets the client has created
    rq,             \* requests of the handlers that check out a pool client
    poolClients     \* per request: clients checked out, release() calls

vars == <<classes, timetables, nextSlotId, tt, academic_years, nextYearId, ay,
          ro, attendance, att, resp,
          activeConnections, sockets, client, cws, rq, poolClients>>

wsVars == <<activeConnections, sockets>>

clientVars == <<client, cws>>

poolVars == <<rq, poolClients>>

netVars == <<wsVars, clientVars, poolVars>>

dbVars == <<classes, timetables, nextSlotId, tt, academic_years, nextYearId, ay,
            ro, attendance, att>>

attVars == <<attendance, att>>

ayVars == <<academic_years, nextYearId, ay>>

ttVars == <<timetables, nextSlotId, tt>>

Respond(p, op, code) == resp' = [resp EXCEPT ![p] = [op |-> op, code |-> code]]

(***************************************************************************)
(* Timetable allocator                                                     *)
(***************************************************************************)
TtIdle == [pc |-> "idle"]

\* a conflict query that misses existing slots lying inside the new interval
ConflictClauseNoContain(row, st, et) ==
    \/ (row.start_time <= st /\ row.end_time > st)
    \/ (row.start_time < et /\ row.end_time >= et)

\* a conflict query whose first clause also matches a slot ending at the new start
ConflictClauseClosed(row, st, et) ==
    \/ (row.start_time <= st /\ row.end_time >= st)
    \/ (row.start_time < et /\ row.end_time >= et)
    \/ (row.start_time >= st /\ row.end_time <= et)

\* the three-clause WHERE condition of conflictCheck on one row
ConflictClause(row, st, et) ==
    \/ (row.start_time <= st /\ row.end_time > st)
    \/ (row.start_time < et /\ row.end_time >= et)
    \/ (row.start_time >= st /\ row.end_time <= et)

\* conflictCheck of POST /:id/timetable
conflictCheck(classId, day, st, et) ==
    { r \in timetables : /\ r.class_id = classId
                         /\ r.day_of_week = day
                         /\ ConflictClause(r, ParseTime(st), ParseTime(et)) }

\* a conflict query of the update that also returns the updated slot itself
conflictCheckIncludingSelf(classId, day, id, st, et) ==
    conflictCheck(classId, day, st, et)

\* conflictCheck of PUT /timetable/:id  (AND id != $3)
conflictCheckExcluding(classId, day, id, st, et) ==
    { r \in conflictCheck(classId, day, st, et) : r.id # id }

\* the required-field and ordering checks shared by POST and PUT
SlotFieldsStatus(subject, teacher_id, day, st, et) ==
    IF subject = Missing THEN 400
    ELSE IF teacher_id = Missing THEN 400
    ELSE IF day = 0 \/ day < 1 \/ day > 7 THEN 400
    ELSE IF st = <<>> \/ et = <<>> THEN 400
    ELSE IF StrGe(st, et) THEN 400
    ELSE 0

teacherCheck(teacher_id, branchId) ==
    { u \in Users : u.id = teacher_id /\ u.role = "teacher"
                    /\ u.status = "Active" /\ u.branch_id = branchId }

\* POST /:id/timetable up to and including conflictCheck: 0 = proceed to INSERT
AllocStatus(branchId, classId, subject, teacher_id, day, st, et) ==
    IF { c \in classes : c.id = classId /\ c.branch_id = branchId } = {} THEN 404
    ELSE IF SlotFieldsStatus(subject, teacher_id, day, st, et) # 0 THEN 400
    ELSE IF teacherCheck(teacher_id, branchId) = {} THEN 400
    ELSE IF conflictCheck(classId, day, st, et) # {} THEN 409
    ELSE 0

\* the slot a PUT/DELETE /timetable/:id finds (join with the class's branch)
existingSlot(id, branchId) ==
    { r \in timetables : r.id = id /\
        \E c \in classes : c.id = r.class_id /\ c.branch_id = branchId }

\* PUT /timetable/:id up to and including conflictCheck
UpdateStatus(branchId, id, subject, teacher_id, day, st, et) ==
    IF existingSlot(id, branchId) = {} THEN 404
    ELSE IF SlotFieldsStatus(subject, teacher_id, day, st, et) # 0 THEN 400
    ELSE IF teacherCheck(teacher_id, branchId) = {} THEN 400
    ELSE LET slotData == CHOOSE r \in existingSlot(id, branchId) : TRUE
         IN  IF conflictCheckExcluding(slotData.class_id, day, id, st, et) # {}
             THEN 409 ELSE 0

\* INSERT INTO branch.timetables ... VALUES (...) of POST /:id/timetable
InsertSlot(tbl, id, q) ==
    tbl \cup { [id |-> id, branch_id |-> q.branchId, class_id |-> q.class_id,
                teacher_id |-> q.teacher_id, day_of_week |-> q.day_of_week,
                start_time |-> ParseTime(q.start_time),
                end_time |-> ParseTime(q.end_time)] }

\* UPDATE branch.timetables SET ... WHERE id = $7 AND branch_id = $8
UpdateSlotRows(tbl, q) ==
    { IF r.id = q.id /\ r.branch_id = q.branchId
      THEN [r EXCEPT !.teacher_id = q.teacher_id, !.day_of_week = q.day_of_week,
                     !.start_time = ParseTime(q.start_time),
                     !.end_time = ParseTime(q.end_time)]
      ELSE r : r \in tbl }

\* POST /:id/timetable, the whole handler
AllocateSlot(p, q) ==
    /\ tt[p].pc = "idle"
    /\ LET code == AllocStatus(q.branchId, q.class_id, q.subject, q.teacher_id,
                               q.day_of_week, q.start_time, q.end_time)
       IN  IF code # 0
           THEN /\ Respond(p, "allocateSlot", code)
                /\ UNCHANGED <<timetables, nextSlotId>>
           ELSE /\ nextSlotId <= MaxSlots
                /\ timetables' = InsertSlot(timetables, nextSlotId, q)
                /\ nextSlotId' = nextSlotId + 1
                /\ Respond(p, "allocateSlot", 201)
    /\ UNCHANGED <<classes, ro, tt, ayVars, attVars, netVars>>

\* PUT /timetable/:id, the whole handler
UpdateSlot(p, q) ==
    /\ tt[p].pc = "idle"
    /\ LET code == UpdateStatus(q.branchId, q.id, q.subject, q.teacher_id,
                                q.day_of_week, q.start_time, q.end_time)
       IN  IF code # 0
           THEN /\ Respond(p, "updateSlot", code)
                /\ UNCHANGED timetables
           ELSE /\ timetables' = UpdateSlotRows(timetables, q)
                /\ Respond(p, "updateSlot", 200)
    /\ UNCHANGED <<classes, ro, nextSlotId, tt, ayVars, attVars, netVars>>

\* DELETE /timetable/:id, the whole handler
DeleteSlot(p, branchId, id) ==
    /\ tt[p].pc = "idle"
    /\ IF existingSlot(id, branchId) = {}
       THEN /\ Respond(p, "deleteSlot", 404)
            /\ UNCHANGED timetables
       ELSE /\ timetables' = { r \in timetables : ~(r.id = id /\ r.branch_id = branchId) }
            /\ Respond(p, "deleteSlot", 200)
    /\ UNCHANGED <<classes, ro, nextSlotId, tt, ayVars, attVars, netVars>>

\* POST /:id/timetable up to the await after conflictCheck
AllocCheck(p, q) ==
    /\ tt[p].pc = "idle"
    /\ LET code == AllocStatus(q.branchId, q.class_id, q.subject, q.teacher_id,
                               q.day_of_week, q.start_time, q.end_time)
       IN  IF code # 0
           THEN /\ Respond(p, "allocateSlot", code)
                /\ UNCHANGED tt
           ELSE /\ tt' = [tt EXCEPT ![p] = [pc |-> "insert", q |-> q]]
                /\ UNCHANGED resp
    /\ UNCHANGED <<classes, ro, timetables, nextSlotId, ayVars, attVars, netVars>>

\* POST /:id/timetable from the INSERT on
AllocInsert(p) ==
    /\ tt[p].pc = "insert"
    /\ nextSlotId <= MaxSlots
    /\ timetables' = InsertSlot(timetables, nextSlotId, tt[p].q)
    /\ nextSlotId' = nextSlotId + 1
    /\ tt' = [tt EXCEPT ![p] = TtIdle]
    /\ Respond(p, "allocateSlot", 201)
    /\ UNCHANGED <<classes, ro, ayVars, attVars, netVars>>

\* PUT /timetable/:id up to the await after conflictCheck
UpdateCheck(p, q) ==
    /\ tt[p].pc = "idle"
    /\ LET code == UpdateStatus(q.branchId, q.id, q.subject, q.teacher_id,
                                q.day_of_week, q.start_time, q.end_time)
       IN  IF code # 0
           THEN /\ Respond(p, "updateSlot", code)
                /\ UNCHANGED tt
           ELSE /\ tt' = [tt EXCEPT ![p] = [pc |-> "update", q |-> q]]
                /\ UNCHANGED resp
    /\ UNCHANGED <<classes, ro, timetables, nextSlotId, ayVars, attVars, netVars>>

\* PUT /timetable/:id from the UPDATE on
UpdateWrite(p) ==
    /\ tt[p].pc = "update"
    /\ timetables' = UpdateSlotRows(timetables, tt[p].q)
    /\ tt' = [tt EXCEPT ![p] = TtIdle]
    /\ Respond(p, "updateSlot", 200)
    /\ UNCHANGED <<classes, ro, nextSlotId, ayVars, attVars, netVars>>

(***************************************************************************)
(* Academic Year Registry                                                  *)
(***************************************************************************)
YearStatuses == {"upcoming", "active", "completed"}

AyIdle == [pc |-> "idle"]

\* uniqueness of (branch_id, year_name) in public.academic_years
AyUniqueOk(rows) ==
    \A r1 \in rows : \A r2 \in rows :
        r1.id # r2.id => ~(r1.branch_id = r2.branch_id /\ r1.year_name = r2.year_name)

\* new Date(start_date) >= new Date(end_date); a date is a day number, 0 = not given
DatesInverted(start_date, end_date) == start_date >= end_date

\* a create that reports a duplicate name as a validation failure
YearCreateStatusDupInvalid(b, q) ==
    IF q.year_name = Missing \/ q.start_date = 0 \/ q.end_date = 0 \/ q.status = Missing
    THEN 400
    ELSE IF q.status \notin YearStatuses THEN 400
    ELSE IF DatesInverted(q.start_date, q.end_date) THEN 400
    ELSE IF \E r \in academic_years : r.year_name = q.year_name /\ r.branch_id = b THEN 400
    ELSE IF q.status = "active"
            /\ \E r \in academic_years : r.status = "active" /\ r.branch_id = b THEN 409
    ELSE 0

\* POST /academic-years: validations, duplicateYear and activeYear queries
YearCreateStatus(b, q) ==
    IF q.year_name = Missing \/ q.start_date = 0 \/ q.end_date = 0 \/ q.status = Missing
    THEN 400
    ELSE IF q.status \notin YearStatuses THEN 400
    ELSE IF DatesInverted(q.start_date, q.end_date) THEN 400
    ELSE IF \E r \in academic_years : r.year_name = q.year_name /\ r.branch_id = b THEN 409
    ELSE IF q.status = "active"
            /\ \E r \in academic_years : r.status = "active" /\ r.branch_id = b THEN 409
    ELSE 0

\* INSERT INTO public.academic_years
InsertYear(rows, id, b, q) ==
    rows \cup { [id |-> id, year_name |-> q.year_name, branch_id |-> b,
                 start_date |-> q.start_date, status |-> q.status] }

\* PUT /academic-years/:id, steps 1-4: existence, status, dates, dupCheck
YearUpdateStatus(q) ==
    IF { r \in academic_years : r.year_name = q.id } = {} THEN 404
    ELSE IF q.status # Missing /\ q.status \notin YearStatuses THEN 400
    ELSE IF q.start_date # 0 /\ q.end_date # 0 /\ DatesInverted(q.start_date, q.end_date)
    THEN 400
    ELSE IF q.year_name # Missing /\ q.year_name # q.id
            /\ \E r \in academic_years : r.year_name = q.year_name /\ r.year_name # q.id
    THEN 409
    ELSE 0

\* a demotion that is left out
NoDemotion(rows, b, status) == rows

\* step 5: UPDATE ... SET status = 'completed' WHERE branch_id = $1 AND status = 'active'
DemoteActive(rows, b, status) ==
    IF status = "active"
    THEN { IF r.branch_id = b /\ r.status = "active"
           THEN [r EXCEPT !.status = "completed"] ELSE r : r \in rows }
    ELSE rows

\* an UPDATE that never sets branch_id
UpdateYearRowsNoBind(rows, b, q, currentYear) ==
    { IF r.year_name = q.id
      THEN [r EXCEPT
              !.year_name = IF q.year_name # Missing THEN q.year_name ELSE @,
              !.start_date = IF q.start_date # 0 THEN q.start_date ELSE @,
              !.status = IF q.status # Missing THEN q.status ELSE @]
      ELSE r : r \in rows }

\* steps 6-7: the dynamically built UPDATE ... WHERE year_name = :id
\* (currentYear is existingRes.rows[0])
UpdateYearRows(rows, b, q, currentYear) ==
    LET finalStatus == IF q.status # Missing THEN q.status ELSE currentYear.status
    IN  { IF r.year_name = q.id
          THEN [r EXCEPT
                  !.year_name = IF q.year_name # Missing THEN q.year_name ELSE @,
                  !.start_date = IF q.start_date # 0 THEN q.start_date ELSE @,
                  !.status = IF q.status # Missing THEN q.status ELSE @,
                  !.branch_id = IF finalStatus = "active" THEN b ELSE @]
          ELSE r : r \in rows }

\* a catch block that leaves the demotion in place
YearRollbackKeepsDemotion(rows, demoted) == demoted

\* catch (err): ROLLBACK restores the rows as they were at BEGIN
YearRollback(rows, demoted) == rows

\* POST /academic-years, the whole handler
YearCreate(p, b, q) ==
    /\ ay[p].pc = "idle"
    /\ LET code == YearCreateStatus(b, q)
           inserted == InsertYear(academic_years, nextYearId, b, q)
       IN  IF code # 0
           THEN /\ Respond(p, "createYear", code)
                /\ UNCHANGED <<academic_years, nextYearId>>
           ELSE /\ nextYearId <= MaxYears
                /\ IF AyUniqueOk(inserted)
                   THEN /\ academic_years' = inserted
                        /\ nextYearId' = nextYearId + 1
                        /\ Respond(p, "createYear", 201)
                   ELSE /\ Respond(p, "createYear", 409)      \* error.code 23505
                        /\ UNCHANGED <<academic_years, nextYearId>>
    /\ UNCHANGED <<classes, ro, ttVars, ay, attVars, netVars>>

\* PUT /academic-years/:id, the whole handler (BEGIN ... COMMIT / ROLLBACK)
YearUpdate(p, b, q) ==
    /\ ay[p].pc = "idle"
    /\ LET code == YearUpdateStatus(q)
       IN  IF code # 0
           THEN /\ Respond(p, "updateYear", code)
                /\ UNCHANGED academic_years
           ELSE \E currentYear \in { r \in academic_years : r.year_name = q.id } :
                  LET demoted == DemoteActive(academic_years, b, q.status)
                      updated == UpdateYearRows(demoted, b, q, currentYear)
                  IN  IF AyUniqueOk(updated)
                      THEN /\ academic_years' = updated
                           /\ Respond(p, "updateYear", 200)
                      ELSE /\ academic_years' = YearRollback(academic_years, demoted)
                           /\ Respond(p, "updateYear", 500)
    /\ UNCHANGED <<classes, ro, ttVars, nextYearId, ay, attVars, netVars>>

\* checks of DELETE /academic-years/:id: 0 = delete
YearDeleteStatus(id) ==
    IF { r \in academic_years : r.year_name = id } = {} THEN 404
    ELSE IF Cardinality({ c \in classes : c.academic_year = id }) > 0 THEN 400
    ELSE IF Cardinality({ st \in Students : StudentYear[st] = id }) > 0 THEN 400
    ELSE 0

\* DELETE /academic-years/:id, the whole handler (b is the caller's branch)
YearDelete(p, b, id) ==
    /\ ay[p].pc = "idle"
    /\ LET code == YearDeleteStatus(id)
       IN  IF code # 0
           THEN /\ Respond(p, "deleteYear", code)
                /\ UNCHANGED academic_years
           ELSE /\ academic_years' = { r \in academic_years : r.year_name # id }
                /\ Respond(p, "deleteYear", 200)
    /\ UNCHANGED <<classes, ro, ttVars, nextYearId, ay, attVars, netVars>>

\* POST /academic-years up to the await after the activeYear query
YearCreateCheck(p, b, q) ==
    /\ ay[p].pc = "idle"
    /\ LET code == YearCreateStatus(b, q)
       IN  IF code # 0
           THEN /\ Respond(p, "createYear", code)
                /\ UNCHANGED ay
           ELSE /\ ay' = [ay EXCEPT ![p] = [pc |-> "insert", b |-> b, q |-> q]]
                /\ UNCHANGED resp
    /\ UNCHANGED <<classes, ro, ttVars, academic_years, nextYearId, attVars, netVars>>

\* POST /academic-years from the INSERT on
YearCreateInsert(p) ==
    /\ ay[p].pc = "insert"
    /\ nextYearId <= MaxYears
    /\ LET inserted == InsertYear(academic_years, nextYearId, ay[p].b, ay[p].q)
       IN  IF AyUniqueOk(inserted)
           THEN /\ academic_years' = inserted
                /\ nextYearId' = nextYearId + 1
                /\ Respond(p, "createYear", 201)
           ELSE /\ Respond(p, "createYear", 409)
                /\ UNCHANGED <<academic_years, nextYearId>>
    /\ ay' = [ay EXCEPT ![p] = AyIdle]
    /\ UNCHANGED <<classes, ro, ttVars, attVars, netVars>>

\* PUT /academic-years/:id, steps 1-4 inside the transaction
YearUpdateCheck(p, b, q) ==
    /\ ay[p].pc = "idle"
    /\ LET code == YearUpdateStatus(q)
       IN  IF code # 0
           THEN /\ Respond(p, "updateYear", code)
                /\ UNCHANGED ay
           ELSE /\ \E currentYear \in { r \in academic_years : r.year_name = q.id } :
                      ay' = [ay EXCEPT ![p] = [pc |-> "write", b |-> b, q |-> q,
                                               currentYear |-> currentYear]]
                /\ UNCHANGED resp
    /\ UNCHANGED <<classes, ro, ttVars, academic_years, nextYearId, attVars, netVars>>

\* PUT /academic-years/:id, steps 5-7 and COMMIT, run without interruption
YearUpdateCommit(p) ==
    /\ ay[p].pc = "write"
    /\ LET demoted == DemoteActive(academic_years, ay[p].b, ay[p].q.status)
           updated == UpdateYearRows(demoted, ay[p].b, ay[p].q, ay[p].currentYear)
       IN  IF AyUniqueOk(updated)
           THEN /\ academic_years' = updated
                /\ Respond(p, "updateYear", 200)
           ELSE /\ academic_years' = YearRollback(academic_years, demoted)
                /\ Respond(p, "updateYear", 500)
    /\ ay' = [ay EXCEPT ![p] = AyIdle]
    /\ UNCHANGED <<classes, ro, ttVars, nextYearId, attVars, netVars>>

(***************************************************************************)
(* Attendance Recorder                                                     *)
(*                                                                         *)
(* markAttendance runs its writes on one pooled client between BEGIN and   *)
(* COMMIT.  A transaction's inserts (ins) and updated row versions (upd)   *)
(* stay private until COMMIT; each of its statements reads the committed   *)
(* rows overlaid with its own writes (READ COMMITTED).  An insert whose    *)
(* key is held by another open transaction's insert, or an update of a row *)
(* another open transaction updated, waits for that transaction to end.    *)
(***************************************************************************)
validStatuses == {"Present", "Absent", "Late"}

\* NOW() while markAttendance requests are served; the bodies of markAttendance
\* carry neither subject nor remarks (subject || null, student.remarks || null)
MarkTime == 0

AttIdle == [pc |-> "idle"]

\* /^\d{4}-\d{2}-\d{2}$/ on the dates the requests carry
dateRegex(d) == d \in {"2025-05-01", "2025-05-02"}

\* rows a statement of p's transaction sees
AttView(p) ==
    { r \in attendance : \A u \in att[p].upd : u.id # r.id } \cup att[p].upd \cup att[p].ins

\* requests between BEGIN and COMMIT / ROLLBACK
OpenTx == { o \in Procs : att[o].pc \in {"select", "write", "commit", "catch"} }

\* open transactions other than p's
OtherTx(p) == OpenTx \ {p}

\* a fresh row id (gen_random_uuid): ids are opaque, so the k-th row ever
\* built for a (student, date) pair is named by the pair and k
AttNewId(student, date) ==
    <<student, date,
      1 + Cardinality({ r \in attendance \cup UNION { att[o].ins : o \in OpenTx } :
                          r.student_id = student /\ r.attendance_date = date })>>

\* checks of POST /:id/attendance before the transaction: 0 = proceed to BEGIN
MarkStatus(q) ==
    LET classCheck == { c \in classes : c.id = q.class_id /\ c.branch_id = q.branchId }
    IN  IF classCheck = {} THEN 404
        ELSE IF q.role = "teacher"
                /\ (CHOOSE c \in classCheck : TRUE).teacher_id # q.userId THEN 403
        ELSE IF q.attendance_date = Missing THEN 400
        ELSE IF q.students = <<>> THEN 400
        ELSE IF ~dateRegex(q.attendance_date) THEN 400
        ELSE IF \E i \in 1..Len(q.students) :
                   \/ q.students[i].student_id = Missing
                   \/ q.students[i].status \notin validStatuses THEN 400
        ELSE 0

\* the request arrives
AttReceive(p, q) ==
    /\ att[p].pc = "idle"
    /\ att' = [att EXCEPT ![p] = [pc |-> "validate", q |-> q, before |-> attendance]]
    /\ UNCHANGED <<classes, ro, ttVars, ayVars, attendance, resp, netVars>>

\* classCheck, role check, required fields, date format, status loop; then BEGIN
AttValidate(p) ==
    /\ att[p].pc = "validate"
    /\ LET code == MarkStatus(att[p].q)
       IN  att' = [att EXCEPT ![p] =
                IF code # 0
                THEN [pc |-> "respond", q |-> att[p].q, before |-> att[p].before,
                      code |-> code, createdCount |-> 0, updatedCount |-> 0]
                ELSE [pc |-> "select", q |-> att[p].q, before |-> att[p].before,
                      i |-> 1, found |-> <<>>, ins |-> {}, upd |-> {},
                      createdCount |-> 0, updatedCount |-> 0]]
    /\ UNCHANGED <<classes, ro, ttVars, ayVars, attendance, resp, netVars>>

\* existingRecord: SELECT id ... WHERE student_id = $1 AND attendance_date = $2 AND class_id = $3
existingRecord(p, student) ==
    { r \in AttView(p) : /\ r.student_id = student.student_id
                         /\ r.attendance_date = att[p].q.attendance_date
                         /\ r.class_id = att[p].q.class_id }

\* the loop head and the SELECT for entry i; after the last entry, on to COMMIT
AttSelect(p) ==
    /\ att[p].pc = "select"
    /\ IF att[p].i > Len(att[p].q.students)
       THEN att' = [att EXCEPT ![p].pc = "commit"]
       ELSE LET rows == existingRecord(p, att[p].q.students[att[p].i])
            IN  \E found \in (IF rows = {} THEN {<<>>} ELSE { r.id : r \in rows }) :
                    att' = [att EXCEPT ![p].pc = "write", ![p].found = found]
    /\ UNCHANGED <<classes, ro, ttVars, ayVars, attendance, resp, netVars>>

\* the row the INSERT of entry i builds
NewAttendanceRow(p) ==
    LET q == att[p].q
        student == q.students[att[p].i]
    IN  [id |-> AttNewId(student.student_id, q.attendance_date),
         branch_id |-> q.branchId,
         student_id |-> student.student_id, class_id |-> q.class_id,
         teacher_id |-> q.userId, attendance_date |-> q.attendance_date,
         status |-> student.status, subject |-> Missing, remarks |-> Missing,
         marked_at |-> MarkTime, updated_at |-> MarkTime]

\* attendance_student_id_fkey, attendance_class_id_fkey and
\* attendance_student_id_attendance_date_key
InsertViolates(p, row) ==
    \/ row.student_id \notin Students
    \/ \A c \in classes : c.id # row.class_id
    \/ \E r \in AttView(p) : r.student_id = row.student_id
                             /\ r.attendance_date = row.attendance_date

\* the open transactions whose uncommitted write the next write of p waits for
WaitsFor(p) ==
    IF att[p].pc # "write" THEN {}
    ELSE IF att[p].found = <<>>
    THEN { o \in OtherTx(p) : \E r \in att[o].ins :
              /\ r.student_id = att[p].q.students[att[p].i].student_id
              /\ r.attendance_date = att[p].q.attendance_date }
    ELSE { o \in OtherTx(p) : \E u \in att[o].upd : u.id = att[p].found }

\* the statement of entry i threw: control goes to the catch block
AttThrow(p) == att' = [att EXCEPT ![p].pc = "catch"]

\* an update branch that counts its entry as created
AttUpdateRowCountsCreated(p) ==
    LET student == att[p].q.students[att[p].i]
        rows == { r \in AttView(p) : r.id = att[p].found }
        old == CHOOSE r \in rows : TRUE
        new == [old EXCEPT !.status = student.status, !.subject = Missing,
                           !.remarks = Missing, !.marked_at = MarkTime,
                           !.updated_at = MarkTime]
    IN  att' = [att EXCEPT
                  ![p].ins = IF rows # {} /\ old \in att[p].ins
                             THEN (@ \ {old}) \cup {new} ELSE @,
                  ![p].upd = IF rows = {} \/ old \in att[p].ins THEN @
                             ELSE { u \in @ : u.id # old.id } \cup {new},
                  ![p].createdCount = @ + 1,
                  ![p].i = @ + 1,
                  ![p].pc = "select"]

\* UPDATE branch.attendance SET status = $1, ... WHERE id = $4 (in the transaction)
AttUpdateRow(p) ==
    LET student == att[p].q.students[att[p].i]
        rows == { r \in AttView(p) : r.id = att[p].found }
        old == CHOOSE r \in rows : TRUE
        new == [old EXCEPT !.status = student.status, !.subject = Missing,
                           !.remarks = Missing, !.marked_at = MarkTime,
                           !.updated_at = MarkTime]
    IN  att' = [att EXCEPT
                  ![p].ins = IF rows # {} /\ old \in att[p].ins
                             THEN (@ \ {old}) \cup {new} ELSE @,
                  ![p].upd = IF rows = {} \/ old \in att[p].ins THEN @
                             ELSE { u \in @ : u.id # old.id } \cup {new},
                  ![p].updatedCount = @ + 1,
                  ![p].i = @ + 1,
                  ![p].pc = "select"]

\* INSERT INTO branch.attendance (...) (in the transaction)
AttInsertRow(p) ==
    LET row == NewAttendanceRow(p)
    IN  IF InsertViolates(p, row)
        THEN AttThrow(p)
        ELSE att' = [att EXCEPT ![p].ins = @ \cup {row},
                                ![p].createdCount = @ + 1,
                                ![p].i = @ + 1,
                                ![p].pc = "select"]

\* the branch on existingRecord.rows.length for entry i
AttWrite(p) ==
    /\ att[p].pc = "write"
    /\ WaitsFor(p) = {}
    /\ IF att[p].found # <<>> THEN AttUpdateRow(p) ELSE AttInsertRow(p)
    /\ UNCHANGED <<classes, ro, ttVars, ayVars, attendance, resp, netVars>>

\* two transactions wait for each other: the database aborts the statement of one
AttDeadlock(p) ==
    /\ \E o \in WaitsFor(p) : p \in WaitsFor(o)
    /\ AttThrow(p)
    /\ UNCHANGED <<classes, ro, ttVars, ayVars, attendance, resp, netVars>>

\* COMMIT
AttCommit(p) ==
    /\ att[p].pc = "commit"
    /\ attendance' = AttView(p)
    /\ att' = [att EXCEPT ![p] =
                 [pc |-> "respond", q |-> att[p].q, before |-> att[p].before, code |-> 201,
                  createdCount |-> att[p].createdCount,
                  updatedCount |-> att[p].updatedCount]]
    /\ UNCHANGED <<classes, ro, ttVars, ayVars, resp, netVars>>

\* a catch block that leaves the transaction's writes in place
AttRollbackKeepsWrites(p) ==
    /\ att[p].pc = "catch"
    /\ attendance' = AttView(p)
    /\ att' = [att EXCEPT ![p] =
                 [pc |-> "respond", q |-> att[p].q, before |-> att[p].before, code |-> 500,
                  createdCount |-> att[p].createdCount,
                  updatedCount |-> att[p].updatedCount]]
    /\ UNCHANGED <<classes, ro, ttVars, ayVars, resp, netVars>>

\* catch (dbError): ROLLBACK, rethrow to the outer catch, which answers 500
AttRollback(p) ==
    /\ att[p].pc = "catch"
    /\ att' = [att EXCEPT ![p] =
                 [pc |-> "respond", q |-> att[p].q, before |-> att[p].before, code |-> 500,
                  createdCount |-> att[p].createdCount,
                  updatedCount |-> att[p].updatedCount]]
    /\ UNCHANGED <<classes, ro, ttVars, ayVars, attendance, resp, netVars>>

\* res.status(code).json(...)
AttRespond(p) ==
    /\ att[p].pc = "respond"
    /\ Respond(p, "markAttendance", att[p].code)
    /\ att' = [att EXCEPT ![p] = AttIdle]
    /\ UNCHANGED <<classes, ro, ttVars, ayVars, attendance, netVars>>

\* existingRecord of PUT /attendance/:id: the row joined with its class; the
\* joined row's teacher_id is the class's (c.teacher_id comes after a.*)
existingAttendance(id, branchId) ==
    { r \in attendance : /\ r.id = id /\ r.branch_id = branchId
                         /\ \E c \in classes : c.id = r.class_id }

\* checks of PUT /attendance/:id: 0 = proceed to UPDATE
RecordUpdateStatus(q) ==
    LET rows == existingAttendance(q.id, q.branchId)
        recordData == CHOOSE r \in rows : TRUE
        cls == CHOOSE c \in classes : c.id = recordData.class_id
    IN  IF rows = {} THEN 404
        ELSE IF q.role = "teacher" /\ cls.teacher_id # q.userId THEN 403
        ELSE IF q.status = Missing \/ q.status \notin validStatuses THEN 400
        ELSE 0

\* an UPDATE that also renews the marked-at stamp, as the resubmission does
UpdateRecordRowsRestamps(rows, q) ==
    { IF r.id = q.id /\ r.branch_id = q.branchId
      THEN [r EXCEPT !.status = q.status, !.remarks = q.remarks,
                     !.subject = q.subject, !.marked_at = q.now,
                     !.updated_at = q.now]
      ELSE r : r \in rows }

\* UPDATE branch.attendance SET status = $1, remarks = $2, subject = $3,
\* updated_at = NOW() WHERE id = $4 AND branch_id = $5
UpdateRecordRows(rows, q) ==
    { IF r.id = q.id /\ r.branch_id = q.branchId
      THEN [r EXCEPT !.status = q.status, !.remarks = q.remarks,
                     !.subject = q.subject, !.updated_at = q.now]
      ELSE r : r \in rows }

\* PUT /attendance/:id, the whole handler; its UPDATE waits for an open
\* transaction that has written the row
UpdateRecord(p, q) ==
    /\ \A o \in OpenTx : \A u \in att[o].upd : u.id # q.id
    /\ LET code == RecordUpdateStatus(q)
       IN  IF code # 0
           THEN /\ Respond(p, "updateRecord", code)
                /\ UNCHANGED attendance
           ELSE /\ attendance' = UpdateRecordRows(attendance, q)
                /\ Respond(p, "updateRecord", 200)
    /\ UNCHANGED <<classes, ro, ttVars, ayVars, att, netVars>>

(***************************************************************************)
(* Classes: delete, and rollover (POST /bulk-create)                       *)
(*                                                                         *)
(* The rollover reads its source classes with pool.query before the        *)
(* transaction and inserts the copies on one client between BEGIN and      *)
(* COMMIT; other requests run between its awaits.                          *)
(***************************************************************************)
RoIdle == [pc |-> "idle"]

\* collation order of the class names in use (ORDER BY class_name)
ClassNameOrder == <<"G1", "G2">>

\* !newAcademicYear || !newAcademicYear.trim()
IsBlank(name) == name \in {Missing, " "}

\* SELECT year_name FROM public.academic_years WHERE status = 'active'
\* ORDER BY start_date DESC LIMIT 1: the rows that can come first
activeYearResult ==
    { r \in academic_years :
        /\ r.status = "active"
        /\ \A o \in academic_years : o.status = "active" => o.start_date <= r.start_date }

\* SELECT * FROM branch.classes WHERE branch_id = $1 AND academic_year = $2
\* AND status = 'Active' ORDER BY class_name
existingClasses(b, year) ==
    LET hit(n) == { c \in classes : /\ c.branch_id = b /\ c.academic_year = year
                                    /\ c.status = "Active" /\ c.class_name = n }
        names == SelectSeq(ClassNameOrder, LAMBDA n : hit(n) # {})
    IN  [i \in 1..Len(names) |-> CHOOSE c \in hit(names[i]) : TRUE]

\* SELECT COUNT(*) FROM branch.classes WHERE branch_id = $1 AND academic_year = $2
existingNewYearClasses(b, year) ==
    Cardinality({ c \in classes : c.branch_id = b /\ c.academic_year = year })

\* the guards of POST /bulk-create once the active year is read: 0 = BEGIN
BulkCreateStatus(b, newAcademicYear, currentAcademicYear) ==
    IF existingClasses(b, currentAcademicYear) = <<>> THEN 404
    ELSE IF existingNewYearClasses(b, newAcademicYear) > 0 THEN 409
    ELSE 0

RoDone(p, code) ==
    [pc |-> "respond", b |-> ro[p].b, newAcademicYear |-> ro[p].newAcademicYear,
     currentAcademicYear |-> ro[p].currentAcademicYear,
     before |-> ro[p].before, createdCount |-> ro[p].createdCount, code |-> code]

\* POST /bulk-create up to BEGIN
RoStart(p, b, newAcademicYear) ==
    /\ ro[p].pc = "idle"
    /\ LET early(code, currentAcademicYear) ==
               [pc |-> "respond", b |-> b, newAcademicYear |-> newAcademicYear,
                currentAcademicYear |-> currentAcademicYear,
                before |-> classes, createdCount |-> 0, code |-> code]
       IN  IF IsBlank(newAcademicYear) \/ activeYearResult = {}
           THEN ro' = [ro EXCEPT ![p] = early(400, Missing)]
           ELSE \E top \in activeYearResult :
                  LET code == BulkCreateStatus(b, newAcademicYear, top.year_name)
                  IN  ro' = [ro EXCEPT ![p] =
                         IF code # 0 THEN early(code, top.year_name)
                         ELSE [pc |-> "insert", b |-> b,
                               newAcademicYear |-> newAcademicYear,
                               currentAcademicYear |-> top.year_name,
                               existingClasses |-> existingClasses(b, top.year_name),
                               i |-> 1, ins |-> {}, createdCount |-> 0,
                               before |-> classes]]
    /\ UNCHANGED <<classes, ttVars, ayVars, attVars, resp, netVars>>

\* newClassesData[i]; the row's id stands for its gen_random_uuid()
NewClassRow(cls, newAcademicYear) ==
    [id |-> cls.branch_id \o "/" \o cls.class_name \o "/" \o newAcademicYear,
     branch_id |-> cls.branch_id, class_name |-> cls.class_name,
     teacher_id |-> cls.teacher_id, academic_year |-> newAcademicYear,
     status |-> "Active"]

\* unique_branch_class_name against the rows the transaction sees
ClassInsertViolates(p, row) ==
    \E c \in classes \cup ro[p].ins :
        c.branch_id = row.branch_id /\ c.class_name = row.class_name

\* open rollover transactions whose uncommitted insert holds the key of row
RoWaitsFor(p, row) ==
    { o \in Procs \ {p} :
        /\ ro[o].pc \in {"insert", "commit", "catch"}
        /\ \E c \in ro[o].ins :
              c.branch_id = row.branch_id /\ c.class_name = row.class_name }

\* one turn of the INSERT loop; after the last copy, on to COMMIT
RoInsert(p) ==
    /\ ro[p].pc = "insert"
    /\ IF ro[p].i > Len(ro[p].existingClasses)
       THEN ro' = [ro EXCEPT ![p].pc = "commit"]
       ELSE LET row == NewClassRow(ro[p].existingClasses[ro[p].i], ro[p].newAcademicYear)
            IN  /\ RoWaitsFor(p, row) = {}
                /\ IF ClassInsertViolates(p, row)
                   THEN ro' = [ro EXCEPT ![p].pc = "catch"]
                   ELSE ro' = [ro EXCEPT ![p].ins = @ \cup {row},
                                         ![p].createdCount = @ + 1,
                                         ![p].i = @ + 1]
    /\ UNCHANGED <<classes, ttVars, ayVars, attVars, resp, netVars>>

\* COMMIT
RoCommit(p) ==
    /\ ro[p].pc = "commit"
    /\ classes' = classes \cup ro[p].ins
    /\ ro' = [ro EXCEPT ![p] = RoDone(p, 201)]
    /\ UNCHANGED <<ttVars, ayVars, attVars, resp, netVars>>

\* a catch block that leaves the copies made so far in place
RoRollbackKeepsWrites(p) ==
    /\ ro[p].pc = "catch"
    /\ classes' = classes \cup ro[p].ins
    /\ ro' = [ro EXCEPT ![p] = RoDone(p, 500)]
    /\ UNCHANGED <<ttVars, ayVars, attVars, resp, netVars>>

\* catch (dbError): ROLLBACK, rethrow to the outer catch, which answers 500
RoRollback(p) ==
    /\ ro[p].pc = "catch"
    /\ ro' = [ro EXCEPT ![p] = RoDone(p, 500)]
    /\ UNCHANGED <<classes, ttVars, ayVars, attVars, resp, netVars>>

\* res.status(code).json(...); a 201 carries createdCount and targetYear
RoRespond(p) ==
    /\ ro[p].pc = "respond"
    /\ resp' = [resp EXCEPT ![p] =
                  [op |-> "bulkCreate", code |-> ro[p].code, branchId |-> ro[p].b,
                   targetYear |-> ro[p].newAcademicYear,
                   createdCount |-> ro[p].createdCount]]
    /\ ro' = [ro EXCEPT ![p] = RoIdle]
    /\ UNCHANGED <<classes, ttVars, ayVars, attVars, netVars>>

\* a delete that does not look at the timetable
ClassDeleteStatusNoSlots(b, id) ==
    IF { c \in classes : c.id = id /\ c.branch_id = b } = {} THEN 404
    ELSE IF Cardinality({ st \in Students : StudentClass[st] = id }) > 0 THEN 400
    ELSE 0

\* checks of DELETE /:id: 0 = delete
ClassDeleteStatus(b, id) ==
    IF { c \in classes : c.id = id /\ c.branch_id = b } = {} THEN 404
    ELSE IF Cardinality({ st \in Students : StudentClass[st] = id }) > 0 THEN 400
    ELSE IF Cardinality({ t \in timetables : t.class_id = id }) > 0 THEN 400
    ELSE 0

\* DELETE /:id, the whole handler; attendance rows go with their class
\* (attendance_class_id_fkey ON DELETE CASCADE)
ClassDelete(p, b, id) ==
    /\ { o \in OpenTx : \E r \in att[o].ins \cup att[o].upd : r.class_id = id } = {}
    /\ LET code == ClassDeleteStatus(b, id)
       IN  IF code # 0
           THEN /\ Respond(p, "deleteClass", code)
                /\ UNCHANGED <<classes, attendance>>
           ELSE /\ classes' = { c \in classes : ~(c.id = id /\ c.branch_id = b) }
                /\ attendance' = { r \in attendance : r.class_id # id }
                /\ Respond(p, "deleteClass", 200)
    /\ UNCHANGED <<ro, ttVars, ayVars, att, netVars>>

\* validateClassData: 0 = next()
validateClassData(q) ==
    IF IsBlank(q.class_name) THEN 400
    ELSE IF IsBlank(q.standard) THEN 400
    ELSE IF IsBlank(q.academic_year) THEN 400
    ELSE IF q.capacity # 0 /\ (q.capacity < 1 \/ q.capacity > 100) THEN 400
    ELSE 0

\* teacherAssignmentCheck of POST /: classes of the teacher in the year
teacherAssignmentCheck(teacher_id, academic_year) ==
    { c \in classes : c.teacher_id = teacher_id /\ c.academic_year = academic_year }

\* checks of POST /: 0 = proceed to INSERT
ClassCreateStatus(b, q) ==
    IF validateClassData(q) # 0 THEN validateClassData(q)
    ELSE IF \E c \in classes : /\ c.class_name = q.class_name
                               /\ c.academic_year = q.academic_year
                               /\ c.branch_id = b THEN 409
    ELSE IF q.teacher_id # Missing /\ teacherCheck(q.teacher_id, b) = {} THEN 400
    ELSE IF q.teacher_id # Missing
            /\ teacherAssignmentCheck(q.teacher_id, q.academic_year) # {} THEN 409
    ELSE 0

\* the row INSERT INTO branch.classes builds; its id stands for gen_random_uuid()
CreatedClassRow(b, q) ==
    [id |-> b \o "/" \o q.class_name \o "/" \o q.academic_year,
     branch_id |-> b, class_name |-> q.class_name, teacher_id |-> q.teacher_id,
     academic_year |-> q.academic_year, status |-> "Active"]

\* POST /, the whole handler; unique_branch_class_name fails the INSERT (500)
ClassCreate(p, b, q) ==
    /\ LET code == ClassCreateStatus(b, q)
           row == CreatedClassRow(b, q)
       IN  IF code # 0
           THEN /\ Respond(p, "createClass", code)
                /\ UNCHANGED classes
           ELSE IF \E c \in classes : c.branch_id = b /\ c.class_name = q.class_name
           THEN /\ Respond(p, "createClass", 500)
                /\ UNCHANGED classes
           ELSE /\ classes' = classes \cup {row}
                /\ Respond(p, "createClass", 201)
    /\ UNCHANGED <<ro, ttVars, ayVars, attVars, netVars>>

\* checks of PUT /:id: 0 = proceed to UPDATE
ClassUpdateStatus(b, id, q) ==
    LET existingClass == { c \in classes : c.id = id /\ c.branch_id = b }
        classData == CHOOSE c \in existingClass : TRUE
        changed == q.teacher_id # Missing /\ q.teacher_id # classData.teacher_id
    IN  IF validateClassData(q) # 0 THEN validateClassData(q)
        ELSE IF existingClass = {} THEN 404
        ELSE IF \E c \in classes : /\ c.class_name = q.class_name
                                   /\ c.academic_year = q.academic_year
                                   /\ c.branch_id = b /\ c.id # id THEN 409
        ELSE IF changed /\ teacherCheck(q.teacher_id, b) = {} THEN 400
        ELSE IF changed
                /\ \E c \in teacherAssignmentCheck(q.teacher_id, q.academic_year) :
                      c.id # id THEN 409
        ELSE 0

\* UPDATE branch.classes SET class_name = $1, ..., teacher_id = $4, ...,
\* academic_year = $9 WHERE id = $10 AND branch_id = $11
UpdateClassRows(rows, b, id, q) ==
    { IF c.id = id /\ c.branch_id = b
      THEN [c EXCEPT !.class_name = q.class_name, !.teacher_id = q.teacher_id,
                     !.academic_year = q.academic_year]
      ELSE c : c \in rows }

\* PUT /:id, the whole handler; unique_branch_class_name fails the UPDATE (500)
ClassUpdate(p, b, id, q) ==
    /\ LET code == ClassUpdateStatus(b, id, q)
       IN  IF code # 0
           THEN /\ Respond(p, "updateClass", code)
                /\ UNCHANGED classes
           ELSE IF \E c \in classes : /\ c.branch_id = b /\ c.class_name = q.class_name
                                      /\ c.id # id
           THEN /\ Respond(p, "updateClass", 500)
                /\ UNCHANGED classes
           ELSE /\ classes' = UpdateClassRows(classes, b, id, q)
                /\ Respond(p, "updateClass", 200)
    /\ UNCHANGED <<ro, ttVars, ayVars, attVars, netVars>>

(***************************************************************************)
(* WebSocket notification server: the connection registry                  *)
(***************************************************************************)
Conns == 1..MaxConns

\* activeConnections.get(studentId) of an id that has no entry
NoSocket == 0

\* wss.on('connection'): the server's end of a new connection
WsConnection(c) ==
    /\ sockets[c].readyState = "NONE"
    /\ \A d \in 1..(c - 1) : sockets[d].readyState # "NONE"
    /\ sockets' = [sockets EXCEPT ![c].readyState = "OPEN"]
    /\ UNCHANGED <<dbVars, resp, activeConnections, clientVars, poolVars>>

\* ws.on('message') with {type: 'register', studentId}
WsRegister(c, studentId) ==
    /\ sockets[c].readyState = "OPEN"
    /\ IF studentId # Missing
       THEN /\ activeConnections' = [activeConnections EXCEPT ![studentId] = c]
            /\ sockets' = [sockets EXCEPT ![c].studentId = studentId]
       ELSE UNCHANGED <<activeConnections, sockets>>
    /\ UNCHANGED <<dbVars, resp, clientVars, poolVars>>

\* ws.on('close'): activeConnections.delete(ws.studentId)
WsClose(c) ==
    /\ sockets[c].readyState = "OPEN"
    /\ sockets' = [sockets EXCEPT ![c].readyState = "CLOSED"]
    /\ IF sockets[c].studentId # Missing
       THEN activeConnections' = [activeConnections EXCEPT ![sockets[c].studentId] = NoSocket]
       ELSE UNCHANGED activeConnections
    /\ UNCHANGED <<dbVars, resp, clientVars, poolVars>>

\* the test of broadcastNotificationToStudent: ws && ws.readyState === WebSocket.OPEN
Reaches(studentId) ==
    /\ activeConnections[studentId] # NoSocket
    /\ sockets[activeConnections[studentId]].readyState = "OPEN"

\* broadcastNotificationToStudent(studentId, notification)
broadcastNotificationToStudent(studentId) ==
    /\ IF Reaches(studentId)
       THEN sockets' = [sockets EXCEPT ![activeConnections[studentId]].notified = TRUE]
       ELSE UNCHANGED sockets
    /\ UNCHANGED <<dbVars, resp, activeConnections, clientVars, poolVars>>

(***************************************************************************)
(* NotificationClient: one client object and the WebSockets it creates.    *)
(* Every socket keeps the handlers connect() attached to it.               *)
(***************************************************************************)
\* options.maxReconnectAttempts the client is constructed with
maxReconnectAttempts == 2

\* new WebSocket(this.websocketUrl): the next socket not yet created
FreshSocket(c) ==
    /\ cws[c] = "NONE"
    /\ \A d \in 1..(c - 1) : cws[d] # "NONE"

\* connect(studentId) called by the application; it throws on a missing id
connect(studentId) ==
    /\ IF studentId = Missing
       THEN UNCHANGED <<client, cws>>
       ELSE \E c \in Conns :
              /\ FreshSocket(c)
              /\ client' = [client EXCEPT !.studentId = studentId, !.ws = c]
              /\ cws' = [cws EXCEPT ![c] = "CONNECTING"]
    /\ UNCHANGED <<dbVars, resp, wsVars, poolVars>>

\* this.ws.onopen of socket c
onopen(c) ==
    /\ cws[c] = "CONNECTING"
    /\ cws' = [cws EXCEPT ![c] = "OPEN"]
    /\ client' = [client EXCEPT !.isConnected = TRUE, !.reconnectAttempts = 0]
    /\ UNCHANGED <<dbVars, resp, wsVars, poolVars>>

\* attemptReconnect(): the fields after the call
attemptReconnect(cl) ==
    IF cl.reconnectAttempts < maxReconnectAttempts
    THEN [cl EXCEPT !.reconnectAttempts = @ + 1, !.timers = @ + 1]
    ELSE cl

\* this.ws.onclose of socket c: the connection failed, dropped, or finished closing
onclose(c) ==
    /\ cws[c] \in {"CONNECTING", "OPEN", "CLOSING"}
    /\ cws' = [cws EXCEPT ![c] = "CLOSED"]
    /\ client' = attemptReconnect([client EXCEPT !.isConnected = FALSE])
    /\ UNCHANGED <<dbVars, resp, wsVars, poolVars>>

\* the setTimeout callback of attemptReconnect
reconnectTimer ==
    /\ client.timers > 0
    /\ IF client.studentId = Missing
       THEN /\ client' = [client EXCEPT !.timers = @ - 1]
            /\ UNCHANGED cws
       ELSE \E c \in Conns :
              /\ FreshSocket(c)
              /\ client' = [client EXCEPT !.timers = @ - 1, !.ws = c]
              /\ cws' = [cws EXCEPT ![c] = "CONNECTING"]
    /\ UNCHANGED <<dbVars, resp, wsVars, poolVars>>

\* disconnect()
disconnect ==
    /\ IF client.ws # NoSocket
       THEN /\ cws' = [cws EXCEPT ![client.ws] =
                         IF @ \in {"CONNECTING", "OPEN"} THEN "CLOSING" ELSE @]
            /\ client' = [client EXCEPT !.ws = NoSocket, !.isConnected = FALSE]
       ELSE /\ client' = [client EXCEPT !.isConnected = FALSE]
            /\ UNCHANGED cws
    /\ UNCHANGED <<dbVars, resp, wsVars, poolVars>>

(***************************************************************************)
(* The connection pool.  The four handlers that call pool.connect() are    *)
(* followed along their control flow only: the guards before the           *)
(* checkout, the try block, its catch and its finally.  pool.query checks  *)
(* a client out for the one statement and returns it.                      *)
(***************************************************************************)
\* max: 2
PoolMax == 2

\* the pool.query lookups of POST /teachers/notify: teacher, eligible classes, students
Lookups == 3

Handlers == {"yearUpdate", "bulkCreate", "markAttendance", "syllabus", "notify"}

\* handlers whose validation runs on pool.query before pool.connect()
GuardsFirst == {"bulkCreate", "markAttendance", "syllabus"}

\* handlers with return statements inside the try block
ReturnsInTry == {"yearUpdate", "notify"}

\* clients out of the pool: held by handlers, or by a pool.query in progress
CheckedOut ==
    LET n(p) == poolClients[p].acquired - poolClients[p].released + poolClients[p].query
    IN  n(1) + n(2)

\* the request arrives
PoolStart(p, h) ==
    /\ rq[p].pc = "idle"
    /\ rq' = [rq EXCEPT ![p] = [pc |-> IF h \in GuardsFirst THEN "guards" ELSE "connect",
                                handler |-> h, outcome |-> Missing, lookups |-> 0]]
    /\ poolClients' = [poolClients EXCEPT ![p] = [acquired |-> 0, released |-> 0, query |-> 0]]
    /\ UNCHANGED <<dbVars, resp, wsVars, clientVars>>

\* await pool.query(...) begins: in the guards, or in the try block of notify
PoolQueryBegin(p) ==
    /\ \/ rq[p].pc = "guards"
       \/ rq[p].pc = "try" /\ rq[p].handler = "notify"
    /\ poolClients[p].query = 0
    /\ rq[p].lookups < Lookups
    /\ CheckedOut < PoolMax
    /\ poolClients' = [poolClients EXCEPT ![p].query = 1]
    /\ UNCHANGED <<dbVars, resp, wsVars, clientVars, rq>>

\* await pool.query(...) returns
PoolQueryEnd(p) ==
    /\ poolClients[p].query = 1
    /\ poolClients' = [poolClients EXCEPT ![p].query = 0]
    /\ rq' = [rq EXCEPT ![p].lookups = @ + 1]
    /\ UNCHANGED <<dbVars, resp, wsVars, clientVars>>

\* the guards before the transaction: an early return, or on to pool.connect()
PoolGuards(p, ok) ==
    /\ rq[p].pc = "guards"
    /\ poolClients[p].query = 0
    /\ rq[p].lookups > 0
    /\ rq' = [rq EXCEPT ![p] = IF ok THEN [@ EXCEPT !.pc = "connect"]
                               ELSE [@ EXCEPT !.pc = "idle", !.outcome = "guard"]]
    /\ UNCHANGED <<dbVars, resp, wsVars, clientVars, poolClients>>

\* const client = await pool.connect(): waits while the pool has no free client
PoolConnect(p) ==
    /\ rq[p].pc = "connect"
    /\ CheckedOut < PoolMax
    /\ poolClients' = [poolClients EXCEPT ![p].acquired = @ + 1]
    /\ rq' = [rq EXCEPT ![p].pc = "try", ![p].lookups = 0]
    /\ UNCHANGED <<dbVars, resp, wsVars, clientVars>>

\* the try block ends: a validation return, the response after COMMIT, or a
\* statement that throws (a pool.query that gets no client in time included)
PoolTry(p, outcome) ==
    /\ rq[p].pc = "try"
    /\ poolClients[p].query = 0
    /\ outcome = "return" => rq[p].handler \in ReturnsInTry
    /\ (outcome = "success" /\ rq[p].handler = "notify") => rq[p].lookups = Lookups
    /\ rq' = [rq EXCEPT ![p].outcome = outcome,
                        ![p].pc = IF outcome = "throw" THEN "catch" ELSE "finally"]
    /\ UNCHANGED <<dbVars, resp, wsVars, clientVars, poolClients>>

\* the catch block: ROLLBACK, then the 500 response or the rethrow; control
\* reaches finally whether or not the ROLLBACK itself throws
PoolCatch(p) ==
    /\ rq[p].pc = "catch"
    /\ rq' = [rq EXCEPT ![p].pc = "finally"]
    /\ UNCHANGED <<dbVars, resp, wsVars, clientVars, poolClients>>

\* finally { client.release() }
PoolFinally(p) ==
    /\ rq[p].pc = "finally"
    /\ poolClients' = [poolClients EXCEPT ![p].released = @ + 1]
    /\ rq' = [rq EXCEPT ![p].pc = "idle"]
    /\ UNCHANGED <<dbVars, resp, wsVars, clientVars>>

(***************************************************************************)
(* Initial state: three classes created through POST /, nothing else.      *)
(***************************************************************************)
InitClasses ==
    { [id |-> "c1", branch_id |-> "bA", class_name |-> "G1",
       teacher_id |-> "t1", academic_year |-> "2024", status |-> "Active"],
      [id |-> "c2", branch_id |-> "bB", class_name |-> "G1",
       teacher_id |-> "t2", academic_year |-> "2024", status |-> "Active"],
      [id |-> "c3", branch_id |-> "bA", class_name |-> "G2",
       teacher_id |-> Missing, academic_year |-> "2024", status |-> "Active"] }

\* no connection yet, a NotificationClient just constructed, an idle pool
InitNet ==
    /\ activeConnections = [st \in Students |-> NoSocket]
    /\ sockets = [c \in Conns |-> [readyState |-> "NONE", studentId |-> Missing,
                                    notified |-> FALSE]]
    /\ client = [studentId |-> Missing, ws |-> NoSocket, reconnectAttempts |-> 0,
                 isConnected |-> FALSE, timers |-> 0]
    /\ cws = [c \in Conns |-> "NONE"]
    /\ rq = [p \in Procs |-> [pc |-> "idle", handler |-> Missing, outcome |-> Missing, lookups |-> 0]]
    /\ poolClients = [p \in Procs |-> [acquired |-> 0, released |-> 0, query |-> 0]]

Init ==
    /\ classes = InitClasses
    /\ timetables = {}
    /\ nextSlotId = 1
    /\ tt = [p \in Procs |-> TtIdle]
    /\ academic_years = {}
    /\ nextYearId = 1
    /\ ay = [p \in Procs |-> AyIdle]
    /\ ro = [p \in Procs |-> RoIdle]
    /\ attendance = {}
    /\ att = [p \in Procs |-> AttIdle]
    /\ resp = [p \in Procs |-> [op |-> Missing, code |-> 0]]
    /\ InitNet

(***************************************************************************)
(* Request bodies of the timetable handlers: every well-formed body of a   *)
(* caller for the class of its branch, all orderings of the time strings   *)
(* included, and the malformed variants of one body.                       *)
(***************************************************************************)
SlotIds == 1..MaxSlots
ClassOf(b) == IF b = "bA" THEN "c1" ELSE "c2"
TeacherOf(b) == IF b = "bA" THEN "t1" ELSE "t2"

SlotRequest(b, c, id, s, t, d, st, et) ==
    [branchId |-> b, class_id |-> c, id |-> id, subject |-> s, teacher_id |-> t,
     day_of_week |-> d, start_time |-> st, end_time |-> et]

\* the (start_time, end_time) pairs of the bodies: every pair the handler's
\* string comparison lets through, and three it rejects
T0900 == <<0, 9, Colon, 0, 0>>
T1000 == <<1, 0, Colon, 0, 0>>
T1100 == <<1, 1, Colon, 0, 0>>
T930  == <<9, Colon, 3, 0>>

TimePairs == { <<T0900, T1000>>, <<T0900, T1100>>, <<T0900, T930>>, <<T1000, T1100>>,
               <<T1000, T930>>, <<T1100, T930>>,
               <<T1000, T1000>>, <<T930, T1000>>, <<T1100, T0900>> }

DaysOf(b) == IF b = "bA" THEN {1, 2} ELSE {1}

WellFormed(b, id) ==
    { SlotRequest(b, ClassOf(b), id, "Math", TeacherOf(b), d, tp[1], tp[2]) :
        d \in DaysOf(b), tp \in TimePairs }

Malformed(b, id) ==
    { SlotRequest(b, ClassOf(b), id, Missing, TeacherOf(b), 1, T0900, T1000),
      SlotRequest(b, ClassOf(b), id, "Math", Missing, 1, T0900, T1000),
      SlotRequest(b, ClassOf(b), id, "Math", TeacherOf(IF b = "bA" THEN "bB" ELSE "bA"),
                  1, T0900, T1000),
      SlotRequest(b, ClassOf(b), id, "Math", TeacherOf(b), 0, T0900, T1000),
      SlotRequest(b, ClassOf(b), id, "Math", TeacherOf(b), 8, T0900, T1000),
      SlotRequest(b, ClassOf(b), id, "Math", TeacherOf(b), 1, <<>>, T1000),
      SlotRequest(b, ClassOf(IF b = "bA" THEN "bB" ELSE "bA"), id, "Math",
                  TeacherOf(b), 1, T0900, T1000) }

AllocRequests == UNION { WellFormed(b, 0) \cup Malformed(b, 0) : b \in Branches }
UpdateRequests ==
    UNION { WellFormed(b, id) \cup Malformed(b, id) : b \in Branches, id \in SlotIds }

\* requests of two callers of branch bA for the one class c1 on day 1
ConcRequests(ids) ==
    { SlotRequest("bA", "c1", id, "Math", "t1", 1, tp[1], tp[2]) :
        id \in ids, tp \in { <<T0900, T1000>>, <<T0900, T1100>>, <<T1000, T1100>> } }

\* one request at a time: each handler runs from its first statement to its response
TTSeqNext ==
    \/ \E q \in AllocRequests : AllocateSlot(1, q)
    \/ \E q \in UpdateRequests : UpdateSlot(1, q)
    \/ \E b \in Branches, id \in SlotIds : DeleteSlot(1, b, id)

\* two requests interleaving at the await between the overlap query and the write
TTConcNext ==
    \E p \in Procs :
        \/ \E q \in ConcRequests({0}) : AllocCheck(p, q)
        \/ AllocInsert(p)
        \/ \E q \in ConcRequests(SlotIds) : UpdateCheck(p, q)
        \/ UpdateWrite(p)
        \/ \E id \in SlotIds : DeleteSlot(p, "bA", id)

SpecTTSeq == Init /\ [][TTSeqNext]_vars
SpecTTConc == Init /\ [][TTConcNext]_vars

(***************************************************************************)
(* Request bodies of the academic-year handlers                            *)
(***************************************************************************)
YearNames == {"2024", "2025"}

YearBody(id, name, sd, ed, st) ==
    [id |-> id, year_name |-> name, start_date |-> sd, end_date |-> ed, status |-> st]

CreateBodies ==
    { YearBody(Missing, n, 1, 2, st) : n \in YearNames, st \in YearStatuses }
    \cup { YearBody(Missing, Missing, 1, 2, "active"),
           YearBody(Missing, "2024", 2, 1, "active"),
           YearBody(Missing, "2024", 1, 2, "open") }

\* activate = update with status = 'active', with or without a new name and dates
ActivateBodies ==
    { YearBody(id, n, 0, 0, "active") :
        id \in YearNames \cup {"2026"}, n \in {Missing, "2025", "2026"} }
    \cup { YearBody("2024", Missing, 2, 1, "active"),
           YearBody("2024", Missing, 1, 2, "active") }

\* the bodies of two concurrent callers: create (active or upcoming), activate
ConcCreateBodies == { q \in CreateBodies : q.status \in {"active", "upcoming"} }
ConcActivateBodies == { q \in ActivateBodies : q.id \in YearNames /\ q.year_name = Missing }

\* one request at a time: create and activate
AYSeqNext ==
    \/ \E b \in Branches, q \in CreateBodies : YearCreate(1, b, q)
    \/ \E b \in Branches, q \in ActivateBodies : YearUpdate(1, b, q)
    \/ \E b \in Branches, id \in YearNames \cup {"2026"} : YearDelete(1, b, id)

\* two requests of branch bA interleaving at their awaits
AYConcNext ==
    \E p \in Procs :
        \/ \E q \in ConcCreateBodies : YearCreateCheck(p, "bA", q)
        \/ YearCreateInsert(p)
        \/ \E q \in ConcActivateBodies : YearUpdateCheck(p, "bA", q)
        \/ YearUpdateCommit(p)

SpecAYSeq == Init /\ [][AYSeqNext]_vars
SpecAYConc == Init /\ [][AYConcNext]_vars

(***************************************************************************)
(* Request bodies of markAttendance                                        *)
(***************************************************************************)
Entry(student, status) == [student_id |-> student, status |-> status]

GoodEntries == { Entry(st, x) : st \in Students, x \in {"Present", "Absent"} }
BadEntries == { Entry("s9", "Present"),          \* no such student
                Entry(Missing, "Present"),
                Entry("s1", "Sick") }

Batches ==
    { <<e>> : e \in GoodEntries \cup BadEntries }
    \cup { <<e1, e2>> : e1 \in GoodEntries, e2 \in GoodEntries }
    \cup { <<Entry("s1", "Present"), e2>> : e2 \in BadEntries }

MarkRequest(b, role, user, c, d, batch) ==
    [branchId |-> b, role |-> role, userId |-> user, class_id |-> c,
     attendance_date |-> d, students |-> batch]

\* an admin of bA marking either class of the branch, and the rejected shapes
MarkRequests ==
    { MarkRequest("bA", "admin", "a1", c, "2025-05-01", batch) :
        c \in {"c1", "c3"}, batch \in Batches }
    \cup { MarkRequest("bA", "admin", "a1", "c1", "2025-05-02", <<e>>) : e \in GoodEntries }
    \cup { MarkRequest("bB", "admin", "a2", "c1", "2025-05-01", <<Entry("s1", "Present")>>),
           MarkRequest("bA", "teacher", "t1", "c3", "2025-05-01", <<Entry("s1", "Present")>>),
           MarkRequest("bA", "admin", "a1", "c1", Missing, <<Entry("s1", "Present")>>),
           MarkRequest("bA", "admin", "a1", "c1", "01-05-2025", <<Entry("s1", "Present")>>),
           MarkRequest("bA", "admin", "a1", "c1", "2025-05-01", <<>>) }

\* two callers marking class c1 for one date
ConcMarkRequests ==
    { MarkRequest("bA", "admin", "a1", "c1", "2025-05-01", batch) :
        batch \in { <<Entry("s1", "Present")>>, <<Entry("s1", "Absent")>>,
                    <<Entry("s1", "Present"), Entry("s2", "Present")>>,
                    <<Entry("s2", "Present"), Entry("s1", "Present")>> } }

AttStep(p) ==
    \/ AttValidate(p)
    \/ AttSelect(p)
    \/ AttWrite(p)
    \/ AttDeadlock(p)
    \/ AttCommit(p)
    \/ AttRollback(p)
    \/ AttRespond(p)

\* one request at a time
AttSeqNext ==
    \/ \E q \in MarkRequests : AttReceive(1, q)
    \/ AttValidate(1)
    \/ AttSelect(1)
    \/ AttWrite(1)
    \/ AttCommit(1)
    \/ AttRollback(1)
    \/ AttRespond(1)

\* two requests interleaving at their awaits
AttConcNext ==
    \E p \in Procs :
        \/ \E q \in ConcMarkRequests : AttReceive(p, q)
        \/ AttStep(p)

SpecAttSeq == Init /\ [][AttSeqNext]_vars
SpecAttConc == Init /\ [][AttConcNext]_vars

(***************************************************************************)
(* Rollover requests of one caller per branch, with class deletions and    *)
(* year creations of other callers arriving between its awaits.            *)
(***************************************************************************)
TargetYears == {"2025", "2024", " ", Missing}

RoYearBodies == { YearBody(Missing, "2024", 1, 2, "active"),
                  YearBody(Missing, "2025", 2, 3, "active") }

ClassIds == { c.id : c \in classes }

RoNext ==
    \/ \E b \in Branches : \E y \in TargetYears : RoStart(1, b, y)
    \/ RoInsert(1)
    \/ RoCommit(1)
    \/ RoRollback(1)
    \/ RoRespond(1)
    \/ \E b \in Branches : \E id \in ClassIds : ClassDelete(2, b, id)
    \/ \E b \in Branches : \E q \in RoYearBodies : YearCreate(2, b, q)

SpecRollover == Init /\ [][RoNext]_vars

\* two callers of branch bB rolling over into 2025 at once, with class
\* deletions of the branch and the creation of the active year around them
RoConcNext ==
    \/ \E p \in Procs : \/ RoStart(p, "bB", "2025")
                        \/ RoInsert(p)
                        \/ RoCommit(p)
                        \/ RoRollback(p)
                        \/ RoRespond(p)
    \/ \E id \in ClassIds : ClassDelete(2, "bB", id)
    \/ YearCreate(2, "bA", YearBody(Missing, "2024", 1, 2, "active"))

SpecRoConc == Init /\ [][RoConcNext]_vars

(***************************************************************************)
(* The conflict predicate on its own: one existing slot and one new         *)
(* interval of the same class and day, both with start < end.              *)
(***************************************************************************)
Intervals == { <<st, et>> \in (0..MaxTime) \X (0..MaxTime) : st < et }

InitConflict ==
    /\ classes = InitClasses
    /\ \E old \in Intervals :
          timetables = { [id |-> 1, branch_id |-> "bA", class_id |-> "c1",
                          teacher_id |-> "t1", day_of_week |-> 1,
                          start_time |-> old[1], end_time |-> old[2]] }
    /\ nextSlotId = 2
    /\ \E new \in Intervals :
          tt = [p \in Procs |-> IF p = 1
                                THEN [pc |-> "conflictCheck", class_id |-> "c1",
                                      day_of_week |-> 1,
                                      start_time |-> new[1], end_time |-> new[2]]
                                ELSE TtIdle]
    /\ academic_years = {}
    /\ nextYearId = 1
    /\ ay = [p \in Procs |-> AyIdle]
    /\ ro = [p \in Procs |-> RoIdle]
    /\ attendance = {}
    /\ att = [p \in Procs |-> AttIdle]
    /\ resp = [p \in Procs |-> [op |-> Missing, code |-> 0]]
    /\ InitNet

\* the conflictCheck query on the stored (already converted) times: 409 when
\* it returns a row
ConflictProbe(p) ==
    /\ tt[p].pc = "conflictCheck"
    /\ LET rows == { r \in timetables :
                       /\ r.class_id = tt[p].class_id
                       /\ r.day_of_week = tt[p].day_of_week
                       /\ ConflictClause(r, tt[p].start_time, tt[p].end_time) }
       IN  Respond(p, "conflictCheck", IF rows # {} THEN 409 ELSE 0)
    /\ tt' = [tt EXCEPT ![p].pc = "checked"]
    /\ UNCHANGED <<classes, ro, timetables, nextSlotId, ayVars, attVars, netVars>>

ConflictNext == ConflictProbe(1)

SpecConflict == InitConflict /\ [][ConflictNext]_vars

(***************************************************************************)
(* Class deletion next to the allocation and deletion of timetable slots.  *)
(***************************************************************************)
ClassSlotRequests ==
    { SlotRequest(c.branch_id, c.id, 0, "Math", TeacherOf(c.branch_id), 1, tp[1], tp[2]) :
        c \in InitClasses, tp \in { <<T0900, T1000>>, <<T1000, T1100>> } }

ClassDeleteNext ==
    \/ \E b \in Branches : \E id \in ClassIds : ClassDelete(1, b, id)
    \/ \E q \in ClassSlotRequests : AllocateSlot(2, q)
    \/ \E b \in Branches, id \in SlotIds : DeleteSlot(2, b, id)

SpecClassDelete == Init /\ [][ClassDeleteNext]_vars

(***************************************************************************)
(* Attendance marked for a class that is then deleted.                     *)
(***************************************************************************)
AttDeleteRequests ==
    { MarkRequest("bA", "admin", "a1", c, "2025-05-01", <<e>>) :
        c \in {"c1", "c3"}, e \in GoodEntries }

AttDeleteNext ==
    \/ \E q \in AttDeleteRequests : AttReceive(1, q)
    \/ AttValidate(1)
    \/ AttSelect(1)
    \/ AttWrite(1)
    \/ AttCommit(1)
    \/ AttRollback(1)
    \/ AttRespond(1)
    \/ \E b \in Branches : \E id \in ClassIds : ClassDelete(2, b, id)

SpecAttDelete == Init /\ [][AttDeleteNext]_vars

(***************************************************************************)
(* Class create and update of one caller, next to a rollover.              *)
(***************************************************************************)
ClassBody(name, standard, teacher, year, capacity) ==
    [class_name |-> name, standard |-> standard, teacher_id |-> teacher,
     academic_year |-> year, capacity |-> capacity]

\* bodies of POST / for the coming year: a free and a taken name, every
\* teacher, and the rejected shapes of one body
ClassCreateBodies ==
    { ClassBody(n, "5", t, "2025", 0) : n \in {"G1", "G2"}, t \in {Missing, "t1", "t2"} }
    \cup { ClassBody(" ", "5", "t2", "2025", 0), ClassBody("G2", Missing, "t2", "2025", 0),
           ClassBody("G2", "5", "t2", " ", 0), ClassBody("G2", "5", "t2", "2025", 101) }

\* bodies of PUT /:id for class c: its name kept, either teacher and year
ClassUpdateBodies(c) ==
    { ClassBody(c.class_name, "5", t, y, 30) : t \in {"t1", "t2"}, y \in YearNames }
    \cup { ClassBody(c.class_name, "5", c.teacher_id, "2025", 101) }

ClassesNext ==
    \/ \E q \in ClassCreateBodies : ClassCreate(1, "bB", q)
    \/ \E c \in classes : \E q \in ClassUpdateBodies(c) : ClassUpdate(1, "bB", c.id, q)
    \/ \E id \in ClassIds : ClassDelete(1, "bB", id)
    \/ YearCreate(2, "bB", YearBody(Missing, "2024", 1, 2, "active"))
    \/ RoStart(2, "bB", "2025")
    \/ RoInsert(2)
    \/ RoCommit(2)
    \/ RoRollback(2)
    \/ RoRespond(2)

SpecClasses == Init /\ [][ClassesNext]_vars

(***************************************************************************)
(* Single-record updates of attendance next to markAttendance.             *)
(***************************************************************************)
RecordRequest(b, role, user, id, status, remarks, subject, now) ==
    [branchId |-> b, role |-> role, userId |-> user, id |-> id, status |-> status,
     remarks |-> remarks, subject |-> subject, now |-> now]

\* an admin of bA, an admin of bB and the two teachers on record id; the
\* requests are served at times 1 and 2, after the marks
RecordRequests(id) ==
    { RecordRequest("bA", "admin", "a1", id, st, "ill", "Math", 1) :
        st \in {"Late", "Sick", Missing} }
    \cup { RecordRequest("bA", "admin", "a1", id, "Present", Missing, Missing, 2),
           RecordRequest("bB", "admin", "a2", id, "Late", Missing, Missing, 1),
           RecordRequest("bA", "teacher", "t1", id, "Late", Missing, Missing, 1),
           RecordRequest("bB", "teacher", "t2", id, "Late", Missing, Missing, 1) }

\* ids of the stored records, and one that names no record
RecordIds == { r.id : r \in attendance } \cup { <<"s1", "2025-05-01", 9>> }

RecordMarkRequests ==
    { MarkRequest("bA", "admin", "a1", c, "2025-05-01", batch) :
        c \in {"c1", "c3"},
        batch \in { <<Entry("s1", "Present")>>,
                    <<Entry("s1", "Absent"), Entry("s2", "Present")>> } }

\* one request at a time
AttUpdateNext ==
    \/ \E q \in RecordMarkRequests : AttReceive(1, q)
    \/ AttValidate(1)
    \/ AttSelect(1)
    \/ AttWrite(1)
    \/ AttCommit(1)
    \/ AttRollback(1)
    \/ AttRespond(1)
    \/ /\ att[1].pc = "idle"
       /\ \E id \in RecordIds : \E q \in RecordRequests(id) : UpdateRecord(2, q)

SpecAttUpdate == Init /\ [][AttUpdateNext]_vars

(***************************************************************************)
(* WebSocket connections opening, registering and closing, with            *)
(* notifications broadcast in between.                                     *)
(***************************************************************************)
RegistryNext ==
    \/ \E c \in Conns : WsConnection(c)
    \/ \E c \in Conns : \E st \in Students \cup {Missing} : WsRegister(c, st)
    \/ \E c \in Conns : WsClose(c)
    \/ \E st \in Students : broadcastNotificationToStudent(st)

SpecRegistry == Init /\ [][RegistryNext]_vars

(***************************************************************************)
(* The application calling connect and disconnect on one client while its  *)
(* sockets open and close.                                                 *)
(***************************************************************************)
ClientNext ==
    \/ \E st \in Students \cup {Missing} : connect(st)
    \/ \E c \in Conns : onopen(c)
    \/ \E c \in Conns : onclose(c)
    \/ reconnectTimer
    \/ disconnect

SpecClient == Init /\ [][ClientNext]_vars

(***************************************************************************)
(* Two requests of the pool-using handlers in flight at once.              *)
(***************************************************************************)
PoolNext ==
    \E p \in Procs :
        \/ \E h \in Handlers : PoolStart(p, h)
        \/ PoolQueryBegin(p)
        \/ PoolQueryEnd(p)
        \/ \E ok \in BOOLEAN : PoolGuards(p, ok)
        \/ PoolConnect(p)
        \/ \E outcome \in {"return", "success", "throw"} : PoolTry(p, outcome)
        \/ PoolCatch(p)
        \/ PoolFinally(p)

SpecPool == Init /\ [][PoolNext]_vars

Next == TTSeqNext \/ AYSeqNext \/ AttSeqNext \/ RoNext
Spec == Init /\ [][Next]_vars

(***************************************************************************)
(* Timetable properties                                                    *)
(***************************************************************************)
Overlap(s1, s2) == s1.start_time < s2.end_time /\ s2.start_time < s1.end_time

\* C1: in sequential use, no two slots of one class on one day have
\* intersecting half-open [start,end) intervals.
C1_NoOverlap ==
    \A s1 \in timetables : \A s2 \in timetables :
        (s1.id # s2.id /\ s1.class_id = s2.class_id /\ s1.day_of_week = s2.day_of_week)
            => ~Overlap(s1, s2)

\* two slots of one class share a day and the last request moved or retimed a slot
C1_Witness ==
    /\ resp[1] = [op |-> "updateSlot", code |-> 200]
    /\ \E s1 \in timetables : \E s2 \in timetables :
          /\ s1.id # s2.id /\ s1.class_id = s2.class_id
          /\ s1.day_of_week = s2.day_of_week
          /\ s1.end_time = s2.start_time

\* C2: whatever the interleaving of two concurrent allocateSlot/updateSlot
\* requests for one class and day, once both have responded no two slots of
\* the class overlap on a day (two overlapping requests never both commit).
C2_ConcurrentNoOverlap ==
    (\A p \in Procs : tt[p].pc = "idle") =>
        ~ \E s1 \in timetables : \E s2 \in timetables :
              /\ s1.id # s2.id /\ s1.class_id = s2.class_id
              /\ s1.day_of_week = s2.day_of_week
              /\ Overlap(s1, s2)

(***************************************************************************)
(* Academic-year properties                                                *)
(***************************************************************************)
ActiveYears(b) == { r \in academic_years : r.branch_id = b /\ r.status = "active" }

\* C3: after any sequence of create and activate calls, by callers of any
\* branch and with names shared between branches, every branch has at most
\* one academic year with status = active.
C3_SingleActiveYear == \A b \in Branches : Cardinality(ActiveYears(b)) <= 1

\* both branches hold a year of one name, a branch has replaced its active year
\* by activating another, and the last call was an activation
C3_Witness ==
    /\ resp[1].op = "updateYear" /\ resp[1].code \in {200, 500}
    /\ \E r1 \in academic_years : \E r2 \in academic_years :
          r1.year_name = r2.year_name /\ r1.branch_id # r2.branch_id
    /\ \E r1 \in academic_years : \E r2 \in academic_years :
          /\ r1.branch_id = r2.branch_id
          /\ r1.status = "active" /\ r2.status = "completed"

\* C4: two concurrent create-active / activate requests of one branch never
\* leave the branch with two active years once both have responded.
C4_ConcurrentSingleActive ==
    (\A p \in Procs : ay[p].pc = "idle") =>
        \A b \in Branches : \A r1 \in ActiveYears(b) : \A r2 \in ActiveYears(b) :
            r1.id = r2.id

\* the (student, date) pairs of a request that were on record when it arrived
Resubmitted(a) ==
    { i \in 1..Len(a.q.students) :
        \E r \in a.before : /\ r.student_id = a.q.students[i].student_id
                            /\ r.attendance_date = a.q.attendance_date }

\* the last status a request submits for the student of its entry i
LatestStatus(q, i) ==
    LET last == CHOOSE j \in 1..Len(q.students) :
                    /\ q.students[j].student_id = q.students[i].student_id
                    /\ \A k \in 1..Len(q.students) :
                          q.students[k].student_id = q.students[i].student_id => k <= j
    IN  q.students[last].status

\* C5: a well-formed markAttendance submission (known students, valid
\* statuses) that contains a (student, date) pair already on record, for the
\* same class or another class of the branch, succeeds with 201, and
\* afterwards exactly one record exists for the pair, carrying the latest
\* submitted status.
C5_Idempotent ==
    LET a == att[1]
    IN  ( /\ a.pc = "respond"
          /\ MarkStatus(a.q) = 0
          /\ \A i \in 1..Len(a.q.students) : a.q.students[i].student_id \in Students
          /\ Resubmitted(a) # {} )
        => /\ a.code = 201
           /\ \A i \in Resubmitted(a) :
                 LET rows == { r \in attendance :
                                 /\ r.student_id = a.q.students[i].student_id
                                 /\ r.attendance_date = a.q.attendance_date }
                 IN  /\ Cardinality(rows) = 1
                     /\ \A r \in rows : r.status = LatestStatus(a.q, i)

\* C6: when two markAttendance calls run concurrently on the same (student,
\* date), every call completes with 201 (neither batch is discarded) and once
\* both are done at most one record exists per pair.
C6_ConcurrentBothSucceed ==
    /\ \A p \in Procs : att[p].pc = "respond" => att[p].code = 201
    /\ \A r1, r2 \in attendance :
          (r1.student_id = r2.student_id /\ r1.attendance_date = r2.attendance_date)
          => r1 = r2

\* C7: when the write of any entry of a markAttendance batch fails (the call
\* answers 500 from its catch block), the attendance table equals its state
\* before the call.
C7_BatchAtomic ==
    (att[1].pc = "respond" /\ att[1].code = 500) => attendance = att[1].before

\* a batch failed after at least one of its entries had been written
C7_Witness ==
    /\ att[1].pc = "respond"
    /\ att[1].code = 500
    /\ att[1].createdCount + att[1].updatedCount > 0
    /\ attendance # {}

\* C8: a markAttendance call that passes the class, role, date and non-empty
\* checks but has an entry without a student, naming an unknown student, or
\* with a status outside {Present, Absent, Late} is rejected with 400
\* (ValidationError) and leaves the attendance table as it was.
C8_WholeBatchValidation ==
    LET a == att[1]
        q == a.q
    IN  ( /\ a.pc = "respond"
          /\ MarkStatus([q EXCEPT !.students = <<Entry("s1", "Present")>>]) = 0
          /\ \E i \in 1..Len(q.students) :
                \/ q.students[i].student_id = Missing
                \/ q.students[i].student_id \notin Students
                \/ q.students[i].status \notin validStatuses )
        => (a.code = 400 /\ attendance = a.before)

\* C9: when an insert of the rollover's copy loop fails (the call answers 500
\* from its catch block), no class of the branch exists under the target
\* year when the call returns, however many copies had been inserted.
C9_RolloverAtomic ==
    (ro[1].pc = "respond" /\ ro[1].code = 500)
    => { c \in classes : c.branch_id = ro[1].b
                         /\ c.academic_year = ro[1].newAcademicYear } = {}

\* the second of two copies failed after the first had been inserted
C9_Witness ==
    /\ ro[1].pc = "respond"
    /\ ro[1].code = 500
    /\ ro[1].createdCount >= 1

\* C10: when a caller's previous call was a successful rollover of its branch
\* into target year Y and the copies are still there, its next rollover of
\* the branch into Y answers 409 (ConflictError) and leaves the classes of
\* the branch as they were.
C10_SecondRolloverConflict ==
    ( /\ ro[1].pc = "respond"
      /\ resp[1].op = "bulkCreate"
      /\ resp[1].code = 201
      /\ resp[1].branchId = ro[1].b
      /\ resp[1].targetYear = ro[1].newAcademicYear
      /\ \E c \in ro[1].before : c.branch_id = ro[1].b
                                 /\ c.academic_year = ro[1].newAcademicYear )
    => /\ ro[1].code = 409
       /\ { c \in classes : c.branch_id = ro[1].b }
            = { c \in ro[1].before : c.branch_id = ro[1].b }

\* C11: two concurrent rollover requests of one branch into one target year
\* that passed their guards on the same class table never both commit.
C11_ConcurrentRolloverOnce ==
    ~( /\ \A p \in Procs : ro[p].pc = "respond" /\ ro[p].code = 201
       /\ ro[1].b = ro[2].b
       /\ ro[1].newAcademicYear = ro[2].newAcademicYear
       /\ ro[1].before = ro[2].before )

\* the Active classes a rollover request found for its branch under the
\* source year when it arrived
SourceClasses(r) ==
    { c \in r.before : /\ c.branch_id = r.b
                       /\ c.academic_year = r.currentAcademicYear
                       /\ c.status = "Active" }

\* C12: a rollover whose source year is the active year of the caller's
\* branch, with n >= 1 Active classes there and no class of the branch under
\* the target year, answers 201 with createdCount = n, has created for every
\* source class one Active class of the same name and teacher under the
\* target year, and leaves the source classes in place.
C12_RolloverPostcondition ==
    LET r == ro[1]
    IN  ( /\ r.pc = "respond"
          /\ ~IsBlank(r.newAcademicYear)
          /\ \E y \in academic_years : /\ y.branch_id = r.b /\ y.status = "active"
                                       /\ y.year_name = r.currentAcademicYear
          /\ SourceClasses(r) # {}
          /\ { c \in r.before : c.branch_id = r.b
                                /\ c.academic_year = r.newAcademicYear } = {}
          /\ SourceClasses(r) \subseteq classes )
        => /\ r.code = 201
           /\ r.createdCount = Cardinality(SourceClasses(r))
           /\ \A c \in SourceClasses(r) :
                 \E n \in classes : /\ n.branch_id = c.branch_id
                                    /\ n.class_name = c.class_name
                                    /\ n.teacher_id = c.teacher_id
                                    /\ n.academic_year = r.newAcademicYear
                                    /\ n.status = "Active"

\* C13: when the caller's branch has an active academic year, the source
\* year a rollover request resolves is the name of an active year of that
\* branch, never the active year of another branch.
C13_OwnActiveYearIsSource ==
    [][ ( /\ ro[1].pc = "idle"
          /\ ro'[1].pc # "idle"
          /\ ro'[1].currentAcademicYear # Missing
          /\ ActiveYears(ro'[1].b) # {} )
        => ro'[1].currentAcademicYear \in { y.year_name : y \in ActiveYears(ro'[1].b) } ]_vars

\* the row that has id i
YearById(rows, i) == CHOOSE r \in rows : r.id = i

\* C14: when an update with status = 'active' by a caller of branch b on the
\* year named q.id answers 200 while another year of b is active, then
\* afterwards that other year is completed, the target is active and bound
\* to b, and exactly one year of b is active.
C14_ActivationPostcondition ==
    [][ \A b \in Branches : \A q \in ActivateBodies :
          ( /\ resp'[1].op = "updateYear"
            /\ resp'[1].code = 200
            /\ YearUpdate(1, b, q)
            /\ \E prev \in ActiveYears(b) : prev.year_name # q.id )
          => /\ \A prev \in ActiveYears(b) :
                   prev.year_name # q.id
                   => YearById(academic_years', prev.id).status = "completed"
             /\ \A t \in academic_years :
                   t.year_name = q.id
                   => /\ YearById(academic_years', t.id).status = "active"
                      /\ YearById(academic_years', t.id).branch_id = b
             /\ Cardinality({ r \in academic_years' :
                                r.branch_id = b /\ r.status = "active" }) = 1 ]_vars

\* an activation has answered 200 and left its branch with a completed year
\* next to the active one
C14_Witness ==
    /\ resp[1].op = "updateYear"
    /\ resp[1].code = 200
    /\ \E r1 \in academic_years : \E r2 \in academic_years :
          /\ r1.branch_id = r2.branch_id
          /\ r1.status = "completed"
          /\ r2.status = "active"

\* C15: when an update with status = 'active' fails (500) after its demotion
\* statement has run on an active year of the caller's branch, the demotion
\* is undone: the academic years are as they were before the call.
C15_ActivationRollback ==
    [][ \A b \in Branches : \A q \in ActivateBodies :
          ( /\ resp'[1].op = "updateYear"
            /\ resp'[1].code = 500
            /\ YearUpdate(1, b, q)
            /\ ActiveYears(b) # {} )
          => academic_years' = academic_years ]_vars

\* an activation has failed while every branch had an active year to demote
C15_Witness ==
    /\ resp[1].op = "updateYear"
    /\ resp[1].code = 500
    /\ \A b \in Branches : ActiveYears(b) # {}

\* C16: for an existing slot with start < end and a new interval with
\* start < end on the same class and day, the three-clause conflict
\* predicate reports the slot exactly when existing.start < new.end and
\* existing.end > new.start.
C16_ConflictIsIntersection ==
    tt[1].pc = "checked"
    => \A r \in timetables :
          (resp[1].code = 409) <=> (r.start_time < tt[1].end_time
                                    /\ r.end_time > tt[1].start_time)

\* a new interval that starts where the existing slot ends was accepted
C16_Witness ==
    /\ tt[1].pc = "checked"
    /\ resp[1].code = 0
    /\ \E r \in timetables : r.end_time = tt[1].start_time

\* C17: an academic-year update or delete issued by a caller of branch b
\* leaves every academic year of another branch exactly as it was.
C17_CrossBranchIsolation ==
    [][ \A b \in Branches :
          ( /\ resp'[1].op \in {"updateYear", "deleteYear"}
            /\ \/ \E q \in ActivateBodies : YearUpdate(1, b, q)
               \/ \E id \in YearNames \cup {"2026"} : YearDelete(1, b, id) )
          => \A r \in academic_years : r.branch_id # b => r \in academic_years' ]_vars

\* a create body that passes the field, status and date validations
ValidCreateBody(q) ==
    /\ q.year_name # Missing /\ q.start_date # 0 /\ q.end_date # 0
    /\ q.status \in YearStatuses
    /\ ~DatesInverted(q.start_date, q.end_date)

\* the caller's branch already has a year of the body's name
DuplicateName(b, q) ==
    \E r \in academic_years : r.branch_id = b /\ r.year_name = q.year_name

\* C18 (as stated): a create with an otherwise valid body whose name already
\* exists for the caller's branch answers 400 (ValidationError) and leaves
\* the academic years unchanged.
C18_DuplicateNameValidation ==
    [][ \A b \in Branches : \A q \in CreateBodies :
          ( /\ resp'[1].op = "createYear"
            /\ ValidCreateBody(q)
            /\ DuplicateName(b, q)
            /\ YearCreate(1, b, q) )
          => (resp'[1].code = 400 /\ academic_years' = academic_years) ]_vars

\* C18 (amended): a create with an otherwise valid body whose name already
\* exists for the caller's branch answers 409 (ConflictError) and leaves the
\* academic years unchanged.
C18_DuplicateNameConflict ==
    [][ \A b \in Branches : \A q \in CreateBodies :
          ( /\ resp'[1].op = "createYear"
            /\ ValidCreateBody(q)
            /\ DuplicateName(b, q)
            /\ YearCreate(1, b, q) )
          => (resp'[1].code = 409 /\ academic_years' = academic_years) ]_vars

\* a create was refused with 409 while no year was active, so for its name
C18_Witness ==
    /\ resp[1].op = "createYear"
    /\ resp[1].code = 409
    /\ academic_years # {}
    /\ \A r \in academic_years : r.status # "active"

\* a class or a student references the year by name
YearReferenced(id) ==
    \/ \E c \in classes : c.academic_year = id
    \/ \E st \in Students : StudentYear[st] = id

\* C19: a delete of an existing academic year answers 409 (ConflictError)
\* and removes nothing while a class or a student references the year by
\* name; when nothing references it, the year is deleted.
C19_DeleteYearGuard ==
    [][ \A b \in Branches : \A id \in YearNames \cup {"2026"} :
          ( /\ resp'[1].op = "deleteYear"
            /\ \E r \in academic_years : r.year_name = id
            /\ YearDelete(1, b, id) )
          => IF YearReferenced(id)
             THEN resp'[1].code = 409 /\ academic_years' = academic_years
             ELSE \A r \in academic_years' : r.year_name # id ]_vars

\* active students enrolled in the class, and its timetable slots
Enrolled(id) == { st \in Students : StudentClass[st] = id }
SlotsOf(id) == { t \in timetables : t.class_id = id }

C21_AttendanceNeverDeleted ==
    [][ \A r \in attendance : \E r2 \in attendance' : r2.id = r.id ]_vars

\* C22: after any sequence of class creates, class updates and rollovers, no
\* teacher is the class-teacher of two classes of the same academic year.
C22_TeacherExclusive ==
    \A c1 \in classes : \A c2 \in classes :
        ( /\ c1.id # c2.id
          /\ c1.teacher_id # Missing
          /\ c1.teacher_id = c2.teacher_id )
        => c1.academic_year # c2.academic_year

\* the INSERT of the entry at which p's transaction stopped breaks
\* attendance_student_id_attendance_date_key
DuplicateKeyThrown(p) ==
    /\ att[p].pc = "catch"
    /\ att[p].found = <<>>
    /\ \E r \in AttView(p) :
          /\ r.student_id = att[p].q.students[att[p].i].student_id
          /\ r.attendance_date = att[p].q.attendance_date

\* C23: a failure is reported with the kind of its cause, never as a generic
\* failure; a uniqueness violation of an attendance insert is answered as a
\* conflict (409).
C23_UniqueViolationIsConflict ==
    [][ (DuplicateKeyThrown(1) /\ AttRollback(1)) => att'[1].code = 409 ]_vars

\* the interval of body q is empty or inverted as times of day
Inverted(q) == ParseTime(q.start_time) >= ParseTime(q.end_time)

\* C24: allocateSlot or updateSlot (of an existing slot) with start >= end
\* answers ValidationError (400) whatever slots exist, never ConflictError,
\* and no slot is inserted or modified.
C24_ValidationBeforeOverlap ==
    [][ /\ \A b \in Branches : \A q \in WellFormed(b, 0) :
              (Inverted(q) /\ resp'[1].op = "allocateSlot" /\ AllocateSlot(1, q))
              => (resp'[1].code = 400 /\ timetables' = timetables)
        /\ \A b \in Branches : \A id \in SlotIds : \A q \in WellFormed(b, id) :
              ( /\ Inverted(q)
                /\ existingSlot(id, b) # {}
                /\ resp'[1].op = "updateSlot"
                /\ UpdateSlot(1, q) )
              => (resp'[1].code = 400 /\ timetables' = timetables) ]_vars

\* the interval body q asks for
NewInterval(q) == [start_time |-> ParseTime(q.start_time), end_time |-> ParseTime(q.end_time)]

\* the other slots of the updated slot's class that intersect q's interval on q's day
OthersHit(b, q) ==
    LET slotData == CHOOSE r \in existingSlot(q.id, b) : TRUE
    IN  { r \in timetables : /\ r.id # q.id
                             /\ r.class_id = slotData.class_id
                             /\ r.day_of_week = q.day_of_week
                             /\ Overlap(r, NewInterval(q)) }

\* every stored slot is an interval with start before end
ProperSlots == \A r \in timetables : r.start_time < r.end_time

KeptFields(r) ==
    <<r.id, r.branch_id, r.student_id, r.class_id, r.attendance_date, r.teacher_id,
      r.marked_at>>

\* C26: updateSingleRecord validates the status enum only. With a status
\* outside {Present, Absent, Late} it fails and no record changes; on an
\* accessible record with a valid status it succeeds whatever the other body
\* fields, and it changes status, remarks and subject of that one record only:
\* the record's student, class, date, teacher and marked-at stamp and every
\* other record stay as they were.
C26_SingleRecordUpdate ==
    [][ resp'[2].op = "updateRecord"
        => \A id \in RecordIds : \A q \in RecordRequests(id) :
              UpdateRecord(2, q)
              => /\ q.status \notin validStatuses
                    => (resp'[2].code # 200 /\ attendance' = attendance)
                 /\ resp'[2].code # 200 => attendance' = attendance
                 /\ ( /\ existingAttendance(id, q.branchId) # {}
                      /\ q.role = "admin"
                      /\ q.status \in validStatuses ) => resp'[2].code = 200
                 /\ resp'[2].code = 200
                    => /\ \A r \in attendance : r.id # id => r \in attendance'
                       /\ \A r2 \in attendance' : r2.id # id => r2 \in attendance
                       /\ \E r \in attendance : \E r2 \in attendance' :
                             /\ r.id = id /\ r2.id = id
                             /\ KeptFields(r2) = KeptFields(r)
                             /\ r2.status = q.status
                             /\ r2.remarks = q.remarks
                             /\ r2.subject = q.subject ]_vars

\* one of two stored records was updated on its own after it was marked
C26_Witness ==
    /\ resp[2] = [op |-> "updateRecord", code |-> 200]
    /\ Cardinality(attendance) = 2
    /\ \E r \in attendance : /\ r.updated_at # MarkTime
                             /\ r.marked_at = MarkTime
                             /\ r.status = "Late"
                             /\ r.remarks = "ill"

\* the records of the answered request that were not there when it arrived
InsertedBy(p) == { r \in attendance : \A o \in att[p].before : o.id # r.id }

\* C27: a successful markAttendance reports created + updated = number of
\* submitted entries and created = number of records it inserted; a batch
\* naming one student twice counts the first entry created, the second updated.
C27_Counts ==
    (att[1].pc = "respond" /\ att[1].code = 201)
    => /\ att[1].createdCount + att[1].updatedCount = Len(att[1].q.students)
       /\ att[1].createdCount = Cardinality(InsertedBy(1))
       /\ ( /\ Len(att[1].q.students) = 2
            /\ att[1].q.students[1].student_id = att[1].q.students[2].student_id
            /\ \A o \in att[1].before :
                  o.student_id # att[1].q.students[1].student_id )
          => (att[1].createdCount = 1 /\ att[1].updatedCount = 1)

\* a batch naming a student twice, with no earlier record, was answered 201
C27_Witness ==
    /\ att[1].pc = "respond" /\ att[1].code = 201
    /\ Len(att[1].q.students) = 2
    /\ att[1].q.students[1].student_id = att[1].q.students[2].student_id
    /\ att[1].before = {}
    /\ att[1].createdCount = 1 /\ att[1].updatedCount = 1

\* C28: a student with an open connection on which they registered has an
\* entry in activeConnections that names an open connection, so a broadcast
\* reaches them; also after an older connection of theirs has closed.
C28_RegistryKeepsOpenConnection ==
    \A c \in Conns :
        (sockets[c].readyState = "OPEN" /\ sockets[c].studentId # Missing)
        => Reaches(sockets[c].studentId)

\* C29: after disconnect() the client stays disconnected: a close event
\* arriving while the client holds no socket schedules no reconnect, and no
\* reconnect timer opens a new connection before connect() is called again.
C29_StaysDisconnected ==
    [][ client.ws = NoSocket
        => /\ \A c \in Conns : onclose(c) => client'.timers = client.timers
           /\ reconnectTimer => cws' = cws ]_vars

\* requests that have arrived and not yet left their handler
InFlight == { p \in Procs : rq[p].pc # "idle" }

\* C30: a handler that checked a client out releases it exactly once on
\* every path (validation return, success, failure), so that the clients out
\* of the pool never outnumber the requests in flight.
C30_PoolClientsReleased ==
    /\ \A p \in Procs :
          /\ poolClients[p].released <= poolClients[p].acquired
          /\ poolClients[p].acquired <= 1
          /\ rq[p].pc = "idle" => poolClients[p].released = poolClients[p].acquired
    /\ CheckedOut <= Cardinality(InFlight)

====
